---- MODULE Spec2Model ----
(***************************************************************************)
(* LT-3 keyboard firmware (src/src/main.rs): an RTFM application with      *)
(* three hardware tasks.  tick (TIM3, priority 1) runs the pipeline        *)
(* scan -> debounce -> layout -> report and submits reports to the shared  *)
(* usb_class resource under its priority-ceiling lock; usb_tx and usb_rx   *)
(* (priority 2) poll the USB device and class.                             *)
(*                                                                         *)
(* The scheduler is the Cortex-M NVIC as RTFM programs it: a pending       *)
(* interrupt is taken as soon as its priority exceeds the current          *)
(* execution priority, and lock raises BASEPRI to the resource ceiling     *)
(* for the duration of the closure.                                        *)
(*                                                                         *)
(* Debouncer, Layout, KbHidReport and Class come from the keyberon crate,  *)
(* whose code is not part of src/: they are modelled from spec.md          *)
(* (sections 4.2, 4.3, 4.4, 4.5, 6).                                       *)
(***************************************************************************)
EXTENDS Integers, Sequences, FiniteSets, TLC

VARIABLES
    stack,      \* active interrupt handlers, innermost last
    pend,       \* USB interrupts pending in the NVIC
    uif,        \* TIM3 update interrupt flag (tick pending)
    basepri,    \* BASEPRI: 0, or the ceiling while tick is inside a lock closure
    tpc,        \* position of tick
    upc,        \* position of each USB task inside usb_poll
    evq,        \* events of this tick's debouncer iterator not yet consumed
    site,       \* which send_report call is running: "event" (l.159) or "tick" (l.161)
    report,     \* send_report's local `report`
    cur,        \* Debouncer: latched stable grid
    cnt,        \* Debouncer: per-key count of consecutive differing samples
    lastraw,    \* history: the most recent raw scan
    run,        \* history: per key, how many latest scans in a row read lastraw (capped)
    held,       \* Layout: held key codes, insertion ordered
    installed,  \* usb_class device: current-report slot
    ep_busy,    \* usb_class: interrupt IN endpoint still holds an undrained report
    written,    \* usb_class: last report the endpoint accepted
    retried,    \* history: this call of send_report has had a busy answer
    expiries,   \* history: timer expiries since tick last cleared the flag (capped)
    ipc,        \* position of init
    USB_BUS,    \* init's static USB_BUS: "None" or "Some"
    bus_writes  \* history: how many times USB_BUS has been written

vars == <<stack, pend, uif, basepri, tpc, upc, evq, site, report, cur, cnt,
          lastraw, run, held, installed, ep_busy, written, retried, expiries,
          ipc, USB_BUS, bus_writes>>

schedVars == <<stack, pend, uif, basepri, upc>>
tickVars == <<tpc, evq, site, report>>
pipeVars == <<cur, cnt, lastraw, run, held>>
usbVars == <<installed, ep_busy, written>>
initVars == <<ipc, USB_BUS, bus_writes>>

----------------------------------------------------------------------------
(* Matrix geometry and layout table *)

NRows == 1
NCols == 2

Keys == {<<r, c>> : r \in 0..(NRows - 1), c \in 0..(NCols - 1)}

\* fixed row-major scan order of the matrix
RowMajor == [i \in 1..(NRows * NCols) |-> <<(i - 1) \div NCols, (i - 1) % NCols>>]

Grid == [Keys -> BOOLEAN]

NoKeys == [k \in Keys |-> FALSE]

\* grids in which only the keys of `wired` can read pressed
GridsOver(wired) == {g \in Grid : \A k \in Keys : g[k] => k \in wired}

\* mutants of the layout table: a duplicated entry, the two entries exchanged
LAYERS_dup == << << <<"LShift", "LShift">> >> >>

LAYERS_swapped == << << <<"LCtrl", "LShift">> >> >>

LAYERS == << << <<"LShift", "LCtrl">> >> >>

KeyAt(k) == LAYERS[1][k[1] + 1][k[2] + 1]

----------------------------------------------------------------------------
(* Task priorities and the resource ceiling *)

UsbTasks == {"usb_tx", "usb_rx"}
Tasks == UsbTasks \cup {"tick"}

\* mutant: every task at the priority of tick
PriorityFlat(h) == 1

Priority(h) == IF h \in UsbTasks THEN 2 ELSE 1

SetMax(S) == CHOOSE x \in S : \A y \in S : y <= x

\* tasks that name usb_class in their resources
UsbClassUsers == {"usb_tx", "usb_rx", "tick"}

\* mutant: the ceiling left at the priority of tick
CeilingOfTick == Priority("tick")

Ceiling == SetMax({Priority(h) : h \in UsbClassUsers})

Top == stack[Len(stack)]

OnStack(h) == \E i \in 1..Len(stack) : stack[i] = h

CurPrio ==
    LET p == IF stack = <<>> THEN 0 ELSE Priority(Top)
    IN IF basepri > p THEN basepri ELSE p

IsPending(h) == IF h = "tick" THEN uif ELSE h \in pend

\* a pending interrupt the NVIC takes before the next instruction
Preempted == \E h \in Tasks : IsPending(h) /\ Priority(h) > CurPrio

CanStep(h) == stack # <<>> /\ Top = h /\ ~Preempted

----------------------------------------------------------------------------
(* Debouncer: Debouncer::new(PressedKeys::default(), PressedKeys::default(), 5) *)

\* the claimed debounce threshold, and the cap of the run-length history
DebounceTicks == 5
RunCap == DebounceTicks + 1

\* mutant: a threshold one scan short
nb_bounce_short == DebounceTicks - 1

nb_bounce == 5

\* key k flips when this sample brings its count of differing samples to the threshold
DebounceFlips(stable, count, raw, k) ==
    raw[k] # stable[k] /\ count[k] + 1 >= nb_bounce

DebounceCur(stable, count, raw) ==
    [k \in Keys |-> IF DebounceFlips(stable, count, raw, k) THEN raw[k] ELSE stable[k]]

DebounceCnt(stable, count, raw) ==
    [k \in Keys |-> IF raw[k] = stable[k] \/ DebounceFlips(stable, count, raw, k)
                    THEN 0 ELSE count[k] + 1]

Event(k, pressed) == [type |-> IF pressed THEN "Press" ELSE "Release", key |-> k]

\* the events of one debounce step, in row-major key order
events(stable, count, raw) ==
    LET flipped == SelectSeq(RowMajor, LAMBDA k : DebounceFlips(stable, count, raw, k))
    IN [i \in 1..Len(flipped) |-> Event(flipped[i], raw[flipped[i]])]

----------------------------------------------------------------------------
(* Layout: held key codes *)

SeqToSet(s) == {s[i] : i \in 1..Len(s)}

layout_event(h, e) ==
    IF e.type = "Press"
    THEN IF KeyAt(e.key) \in SeqToSet(h) THEN h ELSE Append(h, KeyAt(e.key))
    ELSE SelectSeq(h, LAMBDA x : x # KeyAt(e.key))

\* mutant: every tick() lets the oldest held key expire
layout_tick_expire(h) == IF h = <<>> THEN h ELSE Tail(h)

\* no time-based action exists in LAYERS: tick() leaves the held keys alone
layout_tick(h) == h

----------------------------------------------------------------------------
(* KbHidReport: 8 bytes, byte 0 modifier bitmask, byte 1 zero, bytes 2..7 slots *)

Usage(kc) == CASE kc = "LCtrl" -> 224
               [] kc = "LShift" -> 225

IsModifier(kc) == Usage(kc) >= 224

RECURSIVE Pow2(_)
Pow2(n) == IF n = 0 THEN 1 ELSE 2 * Pow2(n - 1)

ModifierBit(kc) == Pow2(Usage(kc) - 224)

RECURSIVE SumSet(_)
SumSet(S) == IF S = {} THEN 0
             ELSE LET x == CHOOSE y \in S : TRUE IN x + SumSet(S \ {x})

ReportSlots == 6

KbHidReport(h) ==
    LET mods == {ModifierBit(h[i]) : i \in {j \in 1..Len(h) : IsModifier(h[j])}}
        keys == SelectSeq(h, LAMBDA x : ~IsModifier(x))
    IN [i \in 1..8 |->
          IF i = 1 THEN SumSet(mods)
          ELSE IF i = 2 THEN 0
          ELSE IF i - 2 <= Len(keys) /\ i - 2 <= ReportSlots THEN Usage(keys[i - 2])
          ELSE 0]

ZeroReport == [i \in 1..8 |-> 0]

----------------------------------------------------------------------------
(* usb_class: set_keyboard_report and write *)

\* set_keyboard_report: TRUE iff the report differs from the installed one
set_keyboard_report(slot, r) == slot # r

\* write: "busy" stands for Ok(0), "ok" for an accepted write
write(busy) == IF busy THEN "busy" ELSE "ok"

\* mutants: the lock kept from the install into the write; the lock kept
\* while the write answers busy
BasepriKeptAfterInstall(res) == IF res = "set" THEN Ceiling ELSE 0

BasepriKeptOnBusy(res) == IF res = "busy" THEN Ceiling ELSE 0

\* BASEPRI after a lock closure returns: the lock is released whatever the result
BasepriAfterLock(res) == 0

----------------------------------------------------------------------------
(* init runs with interrupts disabled; the tasks start after it returns *)

Init ==
    /\ ipc = "bus"
    /\ USB_BUS = "None"
    /\ bus_writes = 0
    /\ retried = FALSE
    /\ expiries = 0
    /\ stack = <<>>
    /\ pend = {}
    /\ uif = FALSE
    /\ basepri = 0
    /\ tpc = "idle"
    /\ upc = [h \in UsbTasks |-> "idle"]
    /\ evq = <<>>
    /\ site = "tick"
    /\ report = ZeroReport
    /\ cur = NoKeys
    /\ cnt = [k \in Keys |-> 0]
    /\ lastraw = NoKeys
    /\ run = [k \in Keys |-> 0]
    /\ held = <<>>
    /\ installed = ZeroReport
    /\ ep_busy = FALSE
    /\ written = ZeroReport

\* *USB_BUS = Some(UsbBus::new(usb))
InitUsbBus ==
    /\ ipc = "bus"
    /\ USB_BUS' = "Some"
    /\ bus_writes' = bus_writes + 1
    /\ ipc' = "usb"
    /\ UNCHANGED <<schedVars, tickVars, pipeVars, usbVars, retried, expiries>>

\* usb_bus = USB_BUS.as_ref().unwrap(); usb_class and usb_dev are built from it
InitUsbClassDev ==
    /\ ipc = "usb"
    /\ USB_BUS = "Some"
    /\ ipc' = "timer"
    /\ UNCHANGED <<schedVars, tickVars, pipeVars, usbVars, retried, expiries,
                   USB_BUS, bus_writes>>

\* timer.start_count_down(1.khz()); timer.listen(Update)
InitTimer ==
    /\ ipc = "timer"
    /\ ipc' = "late"
    /\ UNCHANGED <<schedVars, tickVars, pipeVars, usbVars, retried, expiries,
                   USB_BUS, bus_writes>>

\* init returns its LateResources; interrupts are enabled
InitReturn ==
    /\ ipc = "late"
    /\ ipc' = "done"
    /\ UNCHANGED <<schedVars, tickVars, pipeVars, usbVars, retried, expiries,
                   USB_BUS, bus_writes>>

init ==
    \/ InitUsbBus
    \/ InitUsbClassDev
    \/ InitTimer
    \/ InitReturn

----------------------------------------------------------------------------
(* Hardware and host *)

\* how many timer expiries the history counts
MaxExpiries == 2

\* TIM3 counts down at 1 kHz and raises its update flag, which is one bit
TimerExpire ==
    /\ ipc \in {"late", "done"}
    /\ uif' = TRUE
    /\ expiries' = IF expiries < MaxExpiries THEN expiries + 1 ELSE MaxExpiries
    /\ UNCHANGED <<stack, pend, basepri, upc, tickVars, pipeVars, usbVars>>
    /\ UNCHANGED <<retried, initVars>>

\* the USB peripheral raises one of its two interrupts
UsbIrq(h) ==
    /\ ipc \in {"timer", "late", "done"}
    /\ h \notin pend
    /\ pend' = pend \cup {h}
    /\ UNCHANGED <<stack, uif, basepri, upc, tickVars, pipeVars, usbVars>>
    /\ UNCHANGED <<retried, expiries, initVars>>

\* the host polls the interrupt IN endpoint: the report drains, the transfer
\* completes and the peripheral raises USB_LP_CAN_RX0
HostIn ==
    /\ ep_busy
    /\ ep_busy' = FALSE
    /\ pend' = pend \cup {"usb_rx"}
    /\ UNCHANGED <<stack, uif, basepri, upc, tickVars, pipeVars, installed, written>>
    /\ UNCHANGED <<retried, expiries, initVars>>

\* mutant: interrupts enabled while init is still running
DispatchEarly(h) ==
    /\ IsPending(h)
    /\ Priority(h) > CurPrio
    /\ \A g \in Tasks : IsPending(g) => Priority(g) <= Priority(h)
    /\ stack' = Append(stack, h)
    /\ IF h = "tick"
       THEN /\ tpc' = "clear"
            /\ UNCHANGED <<pend, upc>>
       ELSE /\ pend' = pend \ {h}
            /\ upc' = [upc EXCEPT ![h] = "poll_dev"]
            /\ tpc' = tpc
    /\ UNCHANGED <<uif, basepri, evq, site, report, pipeVars, usbVars>>
    /\ UNCHANGED <<retried, expiries, initVars>>

\* the NVIC enters the handler of a pending interrupt of higher priority
Dispatch(h) ==
    /\ ipc = "done"
    /\ IsPending(h)
    /\ Priority(h) > CurPrio
    /\ \A g \in Tasks : IsPending(g) => Priority(g) <= Priority(h)
    /\ stack' = Append(stack, h)
    /\ IF h = "tick"
       THEN /\ tpc' = "clear"
            /\ UNCHANGED <<pend, upc>>
       ELSE /\ pend' = pend \ {h}
            /\ upc' = [upc EXCEPT ![h] = "poll_dev"]
            /\ tpc' = tpc
    /\ UNCHANGED <<uif, basepri, evq, site, report, pipeVars, usbVars>>
    /\ UNCHANGED <<retried, expiries, initVars>>

Pop == SubSeq(stack, 1, Len(stack) - 1)

----------------------------------------------------------------------------
(* usb_tx / usb_rx: usb_poll(usb_dev, usb_class) *)

\* usb_dev.poll(&mut [keyboard]): `more` is its result
UsbPollDev(h, more) ==
    /\ CanStep(h)
    /\ upc[h] = "poll_dev"
    /\ IF more
       THEN /\ upc' = [upc EXCEPT ![h] = "poll_class"]
            /\ stack' = stack
       ELSE /\ upc' = [upc EXCEPT ![h] = "idle"]
            /\ stack' = Pop
    /\ UNCHANGED <<pend, uif, basepri, tickVars, pipeVars, usbVars>>
    /\ UNCHANGED <<retried, expiries, initVars>>

\* keyboard.poll(), then the handler returns
UsbPollClass(h) ==
    /\ CanStep(h)
    /\ upc[h] = "poll_class"
    /\ upc' = [upc EXCEPT ![h] = "idle"]
    /\ stack' = Pop
    /\ UNCHANGED <<pend, uif, basepri, tickVars, pipeVars, usbVars>>
    /\ UNCHANGED <<retried, expiries, initVars>>

----------------------------------------------------------------------------
(* tick *)

\* mutant: the update flag is left set
TickClearKeepsFlag ==
    /\ CanStep("tick")
    /\ tpc = "clear"
    /\ expiries' = 0
    /\ tpc' = "scan"
    /\ UNCHANGED <<stack, pend, uif, basepri, upc, evq, site, report, pipeVars, usbVars>>
    /\ UNCHANGED <<retried, initVars>>

\* c.resources.timer.clear_update_interrupt_flag()
TickClear ==
    /\ CanStep("tick")
    /\ tpc = "clear"
    /\ uif' = FALSE
    /\ expiries' = 0
    /\ tpc' = "scan"
    /\ UNCHANGED <<stack, pend, basepri, upc, evq, site, report, pipeVars, usbVars>>
    /\ UNCHANGED <<retried, initVars>>

\* debouncer.events(matrix.get().unwrap()): the scan is infallible on this
\* hardware (Error = Infallible), raw is what it reads
TickScan(raw) ==
    /\ CanStep("tick")
    /\ tpc = "scan"
    /\ cur' = DebounceCur(cur, cnt, raw)
    /\ cnt' = DebounceCnt(cur, cnt, raw)
    /\ evq' = events(cur, cnt, raw)
    /\ lastraw' = raw
    /\ run' = [k \in Keys |->
                 IF raw[k] # lastraw[k] THEN 1
                 ELSE IF run[k] < RunCap THEN run[k] + 1 ELSE RunCap]
    /\ tpc' = "loop"
    /\ UNCHANGED <<schedVars, site, report, held, usbVars>>
    /\ UNCHANGED <<retried, expiries, initVars>>

\* mutant: the loop takes the events from the back
TickEventLast ==
    /\ CanStep("tick")
    /\ tpc = "loop"
    /\ evq # <<>>
    /\ held' = layout_event(held, evq[Len(evq)])
    /\ evq' = SubSeq(evq, 1, Len(evq) - 1)
    /\ report' = KbHidReport(held')
    /\ site' = "event"
    /\ tpc' = "install"
    /\ UNCHANGED <<schedVars, cur, cnt, lastraw, run, usbVars>>
    /\ UNCHANGED <<retried, expiries, initVars>>

\* mutant: the report collected before the event is applied
TickEventStale ==
    /\ CanStep("tick")
    /\ tpc = "loop"
    /\ evq # <<>>
    /\ held' = layout_event(held, Head(evq))
    /\ evq' = Tail(evq)
    /\ report' = KbHidReport(held)
    /\ site' = "event"
    /\ tpc' = "install"
    /\ UNCHANGED <<schedVars, cur, cnt, lastraw, run, usbVars>>
    /\ UNCHANGED <<retried, expiries, initVars>>

\* loop body: send_report(layout.event(event), ..) up to the collect into report
TickEvent ==
    /\ CanStep("tick")
    /\ tpc = "loop"
    /\ evq # <<>>
    /\ held' = layout_event(held, Head(evq))
    /\ evq' = Tail(evq)
    /\ report' = KbHidReport(held')
    /\ site' = "event"
    /\ tpc' = "install"
    /\ UNCHANGED <<schedVars, cur, cnt, lastraw, run, usbVars>>
    /\ UNCHANGED <<retried, expiries, initVars>>

\* after the loop: send_report(layout.tick(), ..) up to the collect into report
TickLayoutTick ==
    /\ CanStep("tick")
    /\ tpc = "loop"
    /\ evq = <<>>
    /\ held' = layout_tick(held)
    /\ report' = KbHidReport(held')
    /\ site' = "tick"
    /\ tpc' = "install"
    /\ UNCHANGED <<schedVars, evq, cur, cnt, lastraw, run, usbVars>>
    /\ UNCHANGED <<retried, expiries, initVars>>

----------------------------------------------------------------------------
(* send_report *)

\* control returns from send_report: to the loop, or out of tick
Return(stk) == IF site = "event" THEN stk ELSE SubSeq(stk, 1, Len(stk) - 1)

ReturnPc == IF site = "event" THEN "loop" ELSE "idle"

\* usb_class.lock(..) is entered: BASEPRI rises to the ceiling
LockInstall ==
    /\ CanStep("tick")
    /\ tpc = "install"
    /\ basepri' = Ceiling
    /\ tpc' = "in_install"
    /\ UNCHANGED <<stack, pend, uif, upc, evq, site, report, pipeVars, usbVars>>
    /\ UNCHANGED <<retried, expiries, initVars>>

\* mutant: the write is attempted whether or not the report changed
DoInstallUngated ==
    /\ CanStep("tick")
    /\ tpc = "in_install"
    /\ installed' = report
    /\ basepri' = BasepriAfterLock("set")
    /\ tpc' = "write"
    /\ UNCHANGED <<stack, pend, uif, upc, evq, site, report, pipeVars, ep_busy, written>>
    /\ UNCHANGED <<retried, expiries, initVars>>

\* the closure: k.device_mut().set_keyboard_report(report.clone()); lock returns
DoInstall ==
    /\ CanStep("tick")
    /\ tpc = "in_install"
    /\ installed' = report
    /\ basepri' = BasepriAfterLock("set")
    /\ IF set_keyboard_report(installed, report)
       THEN /\ tpc' = "write"
            /\ stack' = stack
       ELSE /\ tpc' = ReturnPc
            /\ stack' = Return(stack)
    /\ UNCHANGED <<pend, uif, upc, evq, site, report, pipeVars, ep_busy, written>>
    /\ UNCHANGED <<retried, expiries, initVars>>

\* usb_class.lock(..) is entered for one write attempt
LockWrite ==
    /\ CanStep("tick")
    /\ tpc = "write"
    /\ basepri' = Ceiling
    /\ tpc' = "in_write"
    /\ UNCHANGED <<stack, pend, uif, upc, evq, site, report, pipeVars, usbVars>>
    /\ UNCHANGED <<retried, expiries, initVars>>

\* mutant: a busy answer ends send_report instead of being retried
DoWriteGiveUp ==
    /\ CanStep("tick")
    /\ tpc = "in_write"
    /\ LET res == write(ep_busy)
       IN /\ basepri' = BasepriAfterLock(res)
          /\ tpc' = ReturnPc
          /\ stack' = Return(stack)
          /\ retried' = FALSE
          /\ IF res = "busy"
             THEN UNCHANGED <<ep_busy, written>>
             ELSE /\ ep_busy' = TRUE
                  /\ written' = report
    /\ UNCHANGED <<pend, uif, upc, evq, site, report, pipeVars, installed>>
    /\ UNCHANGED <<expiries, initVars>>

\* the closure: k.write(report.as_bytes()); lock returns; Ok(0) loops
DoWrite ==
    /\ CanStep("tick")
    /\ tpc = "in_write"
    /\ LET res == write(ep_busy)
       IN /\ basepri' = BasepriAfterLock(res)
          /\ IF res = "busy"
             THEN /\ tpc' = "write"
                  /\ retried' = TRUE
                  /\ UNCHANGED <<stack, ep_busy, written>>
             ELSE /\ ep_busy' = TRUE
                  /\ retried' = FALSE
                  /\ written' = report
                  /\ tpc' = ReturnPc
                  /\ stack' = Return(stack)
    /\ UNCHANGED <<pend, uif, upc, evq, site, report, pipeVars, installed>>
    /\ UNCHANGED <<expiries, initVars>>

----------------------------------------------------------------------------
(* Specifications *)

Environment ==
    \/ TimerExpire
    \/ \E h \in UsbTasks : UsbIrq(h)
    \/ HostIn

\* what the processor executes
Cpu(scans) ==
    \/ init
    \/ \E h \in Tasks : Dispatch(h)
    \/ \E h \in UsbTasks : \E more \in BOOLEAN : UsbPollDev(h, more)
    \/ \E h \in UsbTasks : UsbPollClass(h)
    \/ TickClear
    \/ \E raw \in scans : TickScan(raw)
    \/ TickEvent
    \/ TickLayoutTick
    \/ LockInstall
    \/ DoInstall
    \/ LockWrite
    \/ DoWrite

Next == Environment \/ Cpu(Grid)

Spec == Init /\ [][Next]_vars

\* The scheduling properties are checked with one key of the matrix in use:
\* the processor never stops executing; the timer, the bus and the host owe
\* nothing.
SchedScans == GridsOver({<<0, 0>>})

SchedNext == Environment \/ Cpu(SchedScans)

FairSpec == Init /\ [][SchedNext]_vars /\ WF_vars(Cpu(SchedScans))

----------------------------------------------------------------------------
(* Properties *)

InLock == tpc \in {"in_install", "in_write"}

InSendReport == tpc \in {"install", "in_install", "write", "in_write"}

UsbRunning == \E h \in UsbTasks : OnStack(h)

\* who is accessing usb_class
Accessing ==
    {h \in UsbTasks : OnStack(h)} \cup (IF InLock THEN {"tick"} ELSE {})

\* C1: at most one of tick-inside-a-lock-closure, usb_tx and usb_rx accesses
\* usb_class at any time, and each USB task is at most once on the stack.
C1_MutualExclusion ==
    /\ Cardinality(Accessing) <= 1
    /\ \A i, j \in 1..Len(stack) : stack[i] = stack[j] => i = j

\* tick is inside the write closure while a USB interrupt is pending
C1_Witness == tpc = "in_write" /\ pend # {} /\ basepri = Ceiling

\* C2 (as claimed): from the install until the write is accepted the lock is
\* held without release and no USB handler executes.
C2_Original ==
    tpc \in {"write", "in_write"} => (basepri = Ceiling /\ ~UsbRunning)

\* C2 (amended): the lock is held exactly inside each closure, one for the
\* install and one per write attempt, and released in between; every attempt
\* writes the report that was installed.
C2_Amended ==
    /\ basepri = (IF InLock THEN Ceiling ELSE 0)
    /\ tpc \in {"write", "in_write"} => installed = report

\* a USB task runs between the install and the accepted write, transport busy
C2_Witness == tpc = "write" /\ ep_busy /\ UsbRunning /\ basepri = 0

\* C3: one call of send_report makes only finitely many write attempts,
\* whatever the transport answers: no behaviour stays in the write loop for
\* ever while entering the write closure again and again.
C3_Bounded ==
    \/ []<>(tpc \notin {"write", "in_write"})
    \/ <>[](tpc # "in_write")

\* C4: a USB interrupt pending while tick runs (also while tick installs or
\* retries) is eventually served: a USB task gets the processor.
C4_NotDenied == \A h \in UsbTasks : (h \in pend) ~> UsbRunning

\* a USB interrupt is pending while tick is inside a busy write attempt
C4_Witness == tpc = "in_write" /\ ep_busy /\ pend # {}

\* C5: while a USB task is pending or running and tick is outside a lock
\* closure, tick does not move; a running USB task is always the innermost
\* handler.
C5_Nested ==
    [][/\ ((pend # {} \/ UsbRunning) /\ basepri = 0) => tpc' = tpc
       /\ UsbRunning => Top \in UsbTasks]_vars

\* a USB task has preempted tick between two of its steps
C5_Witness == stack = <<"tick", "usb_rx">> /\ tpc = "loop" /\ evq # <<>>

\* an event for key k in the sequence q
HasEvent(q, k) == \E i \in 1..Len(q) : q[i].key = k

\* C7: in a debounce step a key's stable state flips, and exactly one
\* Press/Release event for it is emitted, if and only if the new raw value has
\* now been read on 5 scans in a row; the flip happens at the 5th of them, a
\* shorter run of differing scans emits nothing, and the stable grid changes in
\* no other step.
C7_Debounce ==
    [][/\ (tpc = "scan" /\ tpc' = "loop") =>
            \A k \in Keys :
                LET flip == cur'[k] # cur[k]
                IN /\ flip <=> (lastraw'[k] # cur[k] /\ run'[k] >= DebounceTicks)
                   /\ flip => run'[k] = DebounceTicks
                   /\ flip <=> HasEvent(evq', k)
                   /\ \A i \in 1..Len(evq') :
                          evq'[i].key = k => evq'[i] = Event(k, lastraw'[k])
                   /\ Cardinality({i \in 1..Len(evq') : evq'[i].key = k}) <= 1
       /\ tpc # "scan" => cur' = cur]_vars

\* a Press was emitted on the 5th consecutive pressed scan of a key
C7_Witness ==
    /\ tpc = "loop"
    /\ \E i \in 1..Len(evq) :
          evq[i].type = "Press" /\ run[evq[i].key] = DebounceTicks

\* positions whose latched state is pressed
Latched == {k \in Keys : cur[k]}

\* C8: Press and Release events of a position alternate, starting with Press:
\* a Press is applied only to a position that is not held and adds exactly
\* LAYERS[0][r][c], a Release only to a held position and removes exactly that
\* code; between ticks the held set is the set of codes of the latched
\* positions, so after the release it is what it was before the press.
C8_RoundTrip ==
    [][/\ (tpc = "loop" /\ evq # <<>> /\ tpc' = "install") =>
            LET e == Head(evq)
                code == LAYERS[1][e.key[1] + 1][e.key[2] + 1]
            IN IF e.type = "Press"
               THEN /\ cur[e.key]
                    /\ code \notin SeqToSet(held)
                    /\ held' = Append(held, code)
               ELSE /\ ~cur[e.key]
                    /\ code \in SeqToSet(held)
                    /\ SeqToSet(held') = SeqToSet(held) \ {code}
                    /\ Len(held') = Len(held) - 1
       /\ (tpc' = "idle") =>
            /\ SeqToSet(held') = {LAYERS[1][k[1] + 1][k[2] + 1] : k \in Latched'}
            /\ Len(held') = Cardinality(Latched')]_vars

\* the Release of a round trip has just been applied and the held set is
\* empty again, as before the Press
C8_Witness ==
    /\ tpc = "install" /\ site = "event"
    /\ held = <<>> /\ cur = NoKeys /\ written # ZeroReport

\* position k is held in the layout: latched, and its event already applied
HeldPos(k) == cur[k] # HasEvent(evq, k)

ExpectedByte0 ==
    (IF HeldPos(<<0, 0>>) THEN 2 ELSE 0) + (IF HeldPos(<<0, 1>>) THEN 1 ELSE 0)

\* C9: every submitted report has byte0 = 0x02 for (0,0) held plus 0x01 for
\* (0,1) held, and bytes 1..7 zero; no installed or written report uses a
\* non-modifier slot.
C9_ReportContent ==
    /\ InSendReport =>
          report = [i \in 1..8 |-> IF i = 1 THEN ExpectedByte0 ELSE 0]
    /\ \A r \in {report, installed, written} :
          /\ r[1] \in 0..3
          /\ \A i \in 2..8 : r[i] = 0

\* both positions held: byte0 = 0x03 is being written
C9_Witness == tpc = "in_write" /\ report[1] = 3 /\ cur = [k \in Keys |-> TRUE]

RECURSIVE ApplyAll(_, _)
ApplyAll(h, q) == IF q = <<>> THEN h ELSE ApplyAll(layout_event(h, Head(q)), Tail(q))

\* the held set this tick ends with
FinalHeld == layout_tick(ApplyAll(held, evq))

\* C10 (as claimed): every report installed or written in a tick is rendered
\* from the held set after all of the tick's events and layout.tick().
C10_Original == InSendReport => report = KbHidReport(FinalHeld)

\* C10 (amended): a report is submitted after every event, rendered from the
\* held set after the events applied so far, and one more after
\* layout.tick(); that last one is rendered from the tick's final held set.
C10_Amended ==
    InSendReport =>
        /\ report = KbHidReport(held)
        /\ site = "tick" => (evq = <<>> /\ report = KbHidReport(FinalHeld))
        /\ tpc \in {"write", "in_write"} => installed = KbHidReport(held)

\* a report of an intermediate held set is being written: an event of this
\* tick is still to be applied
C10_Witness ==
    /\ tpc = "in_write" /\ site = "event" /\ evq # <<>>
    /\ report # KbHidReport(FinalHeld)

\* position of a key in row-major order
RowIdx(k) == k[1] * NCols + k[2]

SymDiff(A, B) == (A \ B) \cup (B \ A)

\* C11: the events still to be applied are always in row-major order; each
\* loop iteration applies the first of them (the held set changes by exactly
\* its key code) and removes it; layout.tick() is called only when none is
\* left; the events change in no other step.
C11_EventOrder ==
    [][/\ \A i, j \in 1..Len(evq') :
            i < j => RowIdx(evq'[i].key) < RowIdx(evq'[j].key)
       /\ (tpc = "loop" /\ tpc' = "install") =>
            IF evq # <<>>
            THEN /\ site' = "event"
                 /\ evq' = Tail(evq)
                 /\ SymDiff(SeqToSet(held), SeqToSet(held')) =
                        {LAYERS[1][Head(evq).key[1] + 1][Head(evq).key[2] + 1]}
            ELSE /\ site' = "tick"
                 /\ evq' = evq
       /\ evq' # evq => tpc \in {"scan", "loop"}]_vars

\* the first of two events of a tick has been applied, the second is waiting
C11_Witness ==
    /\ tpc = "install" /\ site = "event"
    /\ held = <<"LShift">>
    /\ evq = <<Event(<<0, 1>>, TRUE)>>

\* C12: every started tick invocation eventually reaches its layout.tick()
\* call (a tick that is kept off the processor for ever is not counted
\* against the claim).
C12_TickReached ==
    \/ (tpc = "clear") ~> (InSendReport /\ site = "tick")
    \/ <>[](tpc # "in_write")

\* C13: a busy answer changes nothing but the position: the same report, equal
\* to the installed one, is written again and tick keeps running; the
\* accepted report is the installed one, and control then returns to the
\* remaining events or out of tick with events and held keys untouched.
C13_BusyRetry ==
    [][/\ (tpc = "in_write" /\ tpc' # "in_write") =>
            IF ep_busy
            THEN /\ tpc' = "write"
                 /\ installed = report
                 /\ report' = report /\ installed' = installed
                 /\ written' = written /\ stack' = stack
                 /\ evq' = evq /\ held' = held /\ site' = site
            ELSE /\ written' = installed /\ installed' = installed
                 /\ evq' = evq /\ held' = held
                 /\ tpc' = (IF site = "event" THEN "loop" ELSE "idle")
                 /\ site = "event" => stack' = stack
       /\ retried => (tpc \in {"write", "in_write"} /\ report = installed)]_vars

\* after a busy answer the same report is about to be accepted, with an
\* event of the tick still to come
C13_Witness ==
    tpc = "in_write" /\ retried /\ ~ep_busy /\ site = "event" /\ evq # <<>>

\* C14: in a tick whose debounce step emitted no event, layout.tick() leaves
\* the held keys as they are and the report rendered equals the one rendered
\* last; the scan itself never changes the held keys.
C14_IdleTick ==
    [][/\ (tpc = "loop" /\ site = "tick" /\ evq = <<>> /\ tpc' = "install") =>
            (held' = held /\ report' = report)
       /\ tpc \in {"clear", "scan"} => held' = held]_vars

\* an idle tick with a key held is about to call layout.tick()
C14_Witness ==
    tpc = "loop" /\ site = "tick" /\ evq = <<>> /\ held # <<>> /\ cur = lastraw

\* C16: the install closure leads to a write attempt exactly when the report
\* differs from the installed one; otherwise send_report returns at once with
\* the transport untouched and the lock released.  The transport takes a
\* report only inside the write closure, and between ticks the installed
\* report is the rendering of the held keys, so an unchanged held set writes
\* nothing.
C16_ChangeGated ==
    [][/\ (tpc = "in_install" /\ tpc' # "in_install") =>
            IF installed = report
            THEN /\ tpc' \in {"loop", "idle"}
                 /\ usbVars' = usbVars
                 /\ basepri' = 0
            ELSE tpc' = "write"
       /\ (tpc' = "write" /\ tpc \notin {"write", "in_write"}) =>
            (tpc = "in_install" /\ installed # report)
       /\ tpc' = "in_write" => tpc \in {"write", "in_write"}
       /\ (written' # written \/ (ep_busy' /\ ~ep_busy)) => tpc = "in_write"
       /\ tpc' = "idle" => installed' = KbHidReport(held')]_vars

\* the install closure runs with a report equal to the installed one, key held
C16_Witness ==
    tpc = "in_install" /\ installed = report /\ held # <<>> /\ site = "tick"

C18_NoOverlap ==
    [][/\ Cardinality({i \in 1..Len(stack) : stack[i] = "tick"}) <= 1
       /\ OnStack("tick") <=> tpc # "idle"
       /\ (tpc' = "clear" /\ tpc # "clear") => (tpc = "idle" /\ uif)
       /\ (tpc = "clear" /\ tpc' # "clear") => (tpc' = "scan" /\ ~uif')
       /\ uif <=> expiries >= 1]_vars

\* two timer periods have passed while tick retries a busy write
C18_Witness == tpc = "in_write" /\ retried /\ expiries >= 2 /\ uif

\* C19: USB_BUS is written once, by init, before usb_class and usb_dev are
\* built; no task runs before init has returned; after the write it never
\* changes.
C19_UsbBusOnce ==
    [][/\ bus_writes <= 1
       /\ ipc # "bus" => (USB_BUS = "Some" /\ bus_writes = 1)
       /\ (stack # <<>> \/ tpc # "idle") => ipc = "done"
       /\ ipc # "bus" => (USB_BUS' = USB_BUS /\ bus_writes' = bus_writes)]_vars

\* a task runs after init, USB_BUS written once
C19_Witness == ipc = "done" /\ Len(stack) = 2 /\ bus_writes = 1 /\ USB_BUS = "Some"

====
